---- MODULE Spec2Model ----
(***************************************************************************)
(* TemplateV2 (src/dsp/templates/template_v2.py): the query renderer, the  *)
(* verbosity classifier, the guideline renderer, the extractor and the     *)
(* prompt assembler, over texts modelled as sequences of one-character     *)
(* strings.                                                                *)
(***************************************************************************)
EXTENDS Integers, Sequences, FiniteSets, TLC

VARIABLES
    fields,     \* self.fields: the compiled Field sequence
    settings,   \* dsp.settings / dspy.settings as read by the methods
    example,    \* the caller's value set (variable name -> value)
    demos,      \* example.demos: the caller's demonstrations
    pc,         \* "ready", or the method that ran last
    arg,        \* the arguments of the last call
    before,     \* the caller's value set when the last call started
    frame,      \* the callee's local variables when the last call ended
    ret         \* what the last call returned, or the exception it raised

vars == <<fields, settings, example, demos, pc, arg, before, frame, ret>>

----------------------------------------------------------------------------
(* Texts and Python's str methods *)

\* Python's None and True, as values no text (a sequence of characters) equals
None == <<"None">>
True == <<"True">>

Whitespace == {" ", "\n", "\t"}

Min(S) == CHOOSE x \in S : \A y \in S : x <= y
Max(S) == CHOOSE x \in S : \A y \in S : x >= y

lstrip(s, chars) ==
    LET keep == {i \in 1..Len(s) : s[i] \notin chars}
    IN  IF keep = {} THEN <<>> ELSE SubSeq(s, Min(keep), Len(s))

rstrip(s, chars) ==
    LET keep == {i \in 1..Len(s) : s[i] \notin chars}
    IN  IF keep = {} THEN <<>> ELSE SubSeq(s, 1, Max(keep))

\* s.strip()
strip(s) == lstrip(rstrip(s, Whitespace), Whitespace)

\* s.find(sub): the lowest 0-based offset of sub in s, or -1
find(s, sub) ==
    LET hits == {i \in 0..(Len(s) - Len(sub)) : SubSeq(s, i + 1, i + Len(sub)) = sub}
    IN  IF hits = {} THEN -1 ELSE Min(hits)

\* sub in s
contains(s, sub) == find(s, sub) >= 0

\* sep.join(parts)
RECURSIVE join(_, _)
join(sep, parts) ==
    IF parts = <<>> THEN <<>>
    ELSE IF Len(parts) = 1 THEN parts[1]
    ELSE parts[1] \o sep \o join(sep, Tail(parts))

\* x.split(): the maximal runs of non-whitespace characters
RECURSIVE split(_)
split(x) ==
    LET t == lstrip(x, Whitespace)
        ws == {i \in 1..Len(t) : t[i] \in Whitespace}
        end == IF ws = {} THEN Len(t) ELSE Min(ws) - 1
    IN  IF t = <<>> THEN <<>>
        ELSE <<SubSeq(t, 1, end)>> \o split(SubSeq(t, end + 1, Len(t)))

\* the default format_handler of query: " ".join(x.split())
format_handler(x) == join(<<" ">>, split(x))

\* TemplateV2 is built with an empty handler registry (the format_handlers argument)
format_handlers == <<>>

\* example[key] = value
Put(d, key, value) == [k \in DOMAIN d \cup {key} |-> IF k = key THEN value ELSE d[k]]

\* del example[key]
Del(d, key) == [k \in DOMAIN d \ {key} |-> d[k]]

\* example.get(key, False), read as a condition
Get(d, key) == key \in DOMAIN d /\ d[key] = True

----------------------------------------------------------------------------
(* TemplateV2.query *)

has_value(ex, fs) ==
    [i \in 1..Len(fs) |->
        /\ fs[i].input_variable \in DOMAIN ex
        /\ ex[fs[i].input_variable] # None
        /\ ex[fs[i].input_variable] # <<>>]

\* open_field with the last field opened, whatever the filled prefix
open_field_last(ex, fs, is_demo) ==
    IF is_demo THEN ex
    ELSE IF \A i \in 1..Len(fs) : ~has_value(ex, fs)[i]
    THEN Put(ex, fs[1].input_variable, <<>>)
    ELSE IF has_value(ex, fs)[Len(fs)] THEN ex
    ELSE Put(ex, fs[Len(fs)].input_variable, <<>>)

\* the value set after the open-field selection of a live query
open_field(ex, fs, is_demo) ==
    LET hv == has_value(ex, fs)
        n == Len(fs)
        hits == {i \in 2..n : hv[i - 1] /\ \A j \in i..n : ~hv[j]}
    IN  IF is_demo THEN ex
        ELSE IF \A i \in 1..n : ~hv[i] THEN Put(ex, fs[1].input_variable, <<>>)
        ELSE IF hits = {} THEN ex
        ELSE Put(ex, fs[Min(hits)].input_variable, <<>>)

\* one field's message, when its input variable is present and not None
render_field(ex, f, is_demo) ==
    LET value == ex[f.input_variable]
        formatted_value ==
            IF f.input_variable \in DOMAIN format_handlers
            THEN format_handlers[f.input_variable][value]
            ELSE format_handler(value)
        separator ==
            IF f.separator = <<" ">> /\ contains(formatted_value, <<"\n">>)
            THEN <<"\n">> ELSE f.separator
    IN  [role |-> IF f.input \/ ~is_demo THEN "user" ELSE "assistant",
         content |-> f.name \o separator \o formatted_value]

RECURSIVE render_fields(_, _, _)
render_fields(ex, fs, is_demo) ==
    IF fs = <<>> THEN <<>>
    ELSE (IF /\ Head(fs).input_variable \in DOMAIN ex
             /\ ex[Head(fs).input_variable] # None
          THEN <<render_field(ex, Head(fs), is_demo)>> ELSE <<>>)
         \o render_fields(ex, Tail(fs), is_demo)

contents(msgs) == [i \in 1..Len(msgs) |-> msgs[i].content]

merge_roles(result_) ==
    LET user_content ==
            join(<<"\n", "\n">>, contents(SelectSeq(result_, LAMBDA r : r.role = "user")))
        assistant_content ==
            join(<<"\n", "\n">>, contents(SelectSeq(result_, LAMBDA r : r.role = "assistant")))
    IN  (IF user_content # <<>>
         THEN <<[role |-> "user", content |-> user_content]>> ELSE <<>>)
        \o (IF assistant_content # <<>>
            THEN <<[role |-> "assistant", content |-> assistant_content]>> ELSE <<>>)

\* query(example, is_demo): the value set it leaves behind and the messages
query(ex, fs, is_demo) ==
    LET ex2 == open_field(ex, fs, is_demo)
    IN  [example |-> ex2, result |-> merge_roles(render_fields(ex2, fs, is_demo))]

----------------------------------------------------------------------------
(* The compiled templates and value sets the checks draw from *)

MaxFields == 3

Question == <<"Q", "u", "e", "s", "t", "i", "o", "n", ":">>
Answer == <<"A", "n", "s", "w", "e", "r", ":">>
Check == <<"C", "h", "e", "c", "k", ":">>
Score == <<"S", "c", "o", "r", "e", ":">>
Note == <<"N", "o", "t", "e", ":">>

FieldNames == <<Question, Answer, Check, Score, Note>>
FieldVars == <<"question", "answer", "check", "score", "note">>

\* Field(name, separator, input_variable, output_variable, description, input)
Field(name, separator, input_variable, output_variable, description, input) ==
    [name |-> name, separator |-> separator, input_variable |-> input_variable,
     output_variable |-> output_variable, description |-> description, input |-> input]

Separators == {<<" ">>, <<"\n">>}

\* a description segment "${x}", one spread over two lines, or none
Descriptions == {None, <<"$", "{", "x", "}">>, <<"x", "\n", "$", "{", "x", "}">>}

\* templates of n fields: the first k are input fields, separators seps, descriptions descs
Template(n, k, seps, descs) ==
    [i \in 1..n |-> Field(FieldNames[i], seps[i], FieldVars[i], FieldVars[i], descs[i], i <= k)]

InputVars(fs) == {fs[i].input_variable : i \in 1..Len(fs)}

\* the value sets over the variables vs with values in Vals
ValueSets(vs, Vals) == UNION {[D -> Vals] : D \in SUBSET vs}

DefaultSettings == [release |-> 0, query_only |-> FALSE, show_guidelines |-> TRUE]

----------------------------------------------------------------------------
(* Specification of query: a caller renders value sets, live or as demos *)

QueryTemplates ==
    UNION {{Template(n, k, seps, [i \in 1..n |-> <<"$", "{", "x", "}">>]) :
                k \in 0..n, seps \in [1..n -> Separators]} : n \in 1..MaxFields}

QueryValues == {None, <<>>, <<"a">>, <<" ", "a", " ", " ", "b">>}

InitQuery ==
    /\ fields \in QueryTemplates
    /\ settings = DefaultSettings
    /\ example \in ValueSets(InputVars(fields), QueryValues)
    /\ demos = <<>>
    /\ pc = "ready"
    /\ arg = <<>>
    /\ before = example
    /\ frame = <<>>
    /\ ret = <<>>

Query(is_demo) ==
    LET q == query(example, fields, is_demo)
    IN  /\ pc' = "query"
        /\ arg' = [is_demo |-> is_demo]
        /\ before' = example
        /\ example' = q.example
        /\ frame' = [result_ |-> render_fields(q.example, fields, is_demo)]
        /\ ret' = q.result
        /\ UNCHANGED <<fields, settings, demos>>

NextQuery == \E is_demo \in BOOLEAN : Query(is_demo)

SpecQuery == InitQuery /\ [][NextQuery]_vars

\* the value set has a non-empty proper prefix of k filled fields, the rest empty
FilledPrefix(ex, fs, k) ==
    /\ k \in 1..(Len(fs) - 1)
    /\ \A i \in 1..k : has_value(ex, fs)[i]
    /\ \A i \in (k + 1)..Len(fs) : ~has_value(ex, fs)[i]

PrefixCase(k) == pc = "query" /\ ~arg.is_demo /\ FilledPrefix(before, fields, k)

Indices(n) == [i \in 1..n |-> i]

\* what a field shows with a value, and with an empty one
Shown(ex, f) == f.name \o f.separator \o format_handler(ex[f.input_variable])
Blank(f) == f.name \o f.separator

PrefixShown(k) == [i \in 1..k |-> Shown(before, fields[i])]

\* the later fields whose value was the empty string before the call
AlreadyBlank(k) ==
    LET later == SelectSeq(Indices(Len(fields)),
                    LAMBDA i : /\ i > k + 1
                               /\ fields[i].input_variable \in DOMAIN before
                               /\ before[fields[i].input_variable] = <<>>)
    IN  [j \in 1..Len(later) |-> Blank(fields[later[j]])]

UserMessage(parts) == <<[role |-> "user", content |-> join(<<"\n", "\n">>, parts)]>>

\* C2 as stated: given a non-empty proper prefix of filled fields followed by empty
\* fields (absent, None or ""), a live query renders the prefix and exactly one blank
\* field, the first after the prefix.
C2_SingleOpenField ==
    \A k \in 1..MaxFields :
        PrefixCase(k) => ret = UserMessage(PrefixShown(k) \o <<Blank(fields[k + 1])>>)

\* C2 amended: exactly one field is forced to the empty string, the first after the
\* prefix; the blank fields rendered are that one and every later field whose value
\* already was the empty string (absent and None fields are not rendered).
C2_OneForcedField ==
    \A k \in 1..MaxFields :
        PrefixCase(k) =>
            /\ example = Put(before, fields[k + 1].input_variable, <<>>)
            /\ ret = UserMessage(PrefixShown(k) \o <<Blank(fields[k + 1])>> \o AlreadyBlank(k))

\* a prefix of one field, an absent second field and a third one holding ""
C2_Witness ==
    /\ Len(fields) = 3
    /\ PrefixCase(1)
    /\ "answer" \notin DOMAIN before
    /\ "check" \in DOMAIN before
    /\ Len(frame.result_) = 3

\* C9 as stated: query leaves the value set the caller passed with the same keys and
\* values as before the call.
C9_QueryKeepsValueSet == pc = "query" => example = before

----------------------------------------------------------------------------
(* TemplateV2._has_augmented_guidelines *)

Returned(v) == [raised |-> "", value |-> v]
Raised(e) == [raised |-> e, value |-> FALSE]

\* any(("\n" in field.separator) or ("\n" in field.description) for field in fields);
\* "\n" in None raises TypeError
RECURSIVE any_newline(_)
any_newline(fs) ==
    IF fs = <<>> THEN Returned(FALSE)
    ELSE IF contains(Head(fs).separator, <<"\n">>) THEN Returned(TRUE)
    ELSE IF Head(fs).description = None THEN Raised("TypeError")
    ELSE IF contains(Head(fs).description, <<"\n">>) THEN Returned(TRUE)
    ELSE any_newline(Tail(fs))

has_augmented_guidelines(fs) ==
    IF Len(fs) > 3 THEN Returned(TRUE) ELSE any_newline(fs)

VerbosityTemplates ==
    UNION {{Template(n, 0, seps, descs) :
                seps \in [1..n -> Separators], descs \in [1..n -> Descriptions]} :
           n \in 1..(MaxFields + 1)}

InitVerbosity ==
    /\ fields \in VerbosityTemplates
    /\ settings = DefaultSettings
    /\ example = <<>>
    /\ demos = <<>>
    /\ pc = "ready"
    /\ arg = <<>>
    /\ before = <<>>
    /\ frame = <<>>
    /\ ret = <<>>

Classify ==
    /\ pc = "ready"
    /\ pc' = "has_augmented_guidelines"
    /\ ret' = has_augmented_guidelines(fields)
    /\ UNCHANGED <<fields, settings, example, demos, arg, before, frame>>

NextVerbosity == Classify

SpecVerbosity == InitVerbosity /\ [][NextVerbosity]_vars

\* C5 as stated: the classifier returns, without failing, true exactly when there are
\* more than 3 fields or some field's separator or (present) description holds a newline.
C5_VerbosityClassification ==
    pc = "has_augmented_guidelines" =>
        ret = Returned(\/ Len(fields) > 3
                       \/ \E i \in 1..Len(fields) :
                            \/ contains(fields[i].separator, <<"\n">>)
                            \/ /\ fields[i].description # None
                               /\ contains(fields[i].description, <<"\n">>))

----------------------------------------------------------------------------
(* TemplateV2.extract *)

\* the dspy.settings.release values the code compares against
PromoteRelease == 20230928
StripRelease == 20231003

Releases == {0, PromoteRelease, StripRelease}

\* the characters of a text: str.rstrip(chars) takes chars as a set of characters
Chars(s) == {s[i] : i \in 1..Len(s)}

\* s.strip().rstrip("---").strip() from release 20231003 on, s.strip() before
cleanup(s, release) ==
    IF release >= StripRelease
    THEN strip(rstrip(strip(s), Chars(<<"-", "-", "-">>)))
    ELSE strip(s)

\* start_index that always starts at the first field
start_index_first(ex, fs) == 0

\* the first field (0-based) whose input variable is absent or None, at most the last
start_index(ex, fs) ==
    LET open == {i \in 0..(Len(fs) - 1) :
                    \/ fs[i + 1].input_variable \notin DOMAIN ex
                    \/ ex[fs[i + 1].input_variable] = None}
        idx == IF open = {} THEN Len(fs) ELSE Min(open)
    IN  IF idx <= Len(fs) - 1 THEN idx ELSE Len(fs) - 1

\* on_miss that also defaults the later fields to the empty string
on_miss_defaults(ex, fs, raw_pred, idx, release) ==
    [v \in DOMAIN ex \cup {fs[i].output_variable : i \in (idx + 1)..Len(fs)} |->
        IF v = fs[idx + 1].output_variable THEN cleanup(raw_pred, release)
        ELSE IF v \in {fs[i].output_variable : i \in (idx + 2)..Len(fs)} THEN <<>>
        ELSE ex[v]]

\* the value set when the delimiter after field idx (0-based) is not found
on_miss(ex, fs, raw_pred, idx, release) ==
    Put(ex, fs[idx + 1].output_variable, cleanup(raw_pred, release))

\* after_delimiter that keeps the delimiter in the remaining text
after_delimiter_kept(raw_pred, offset, next_field_name) ==
    SubSeq(raw_pred, offset + 1, Len(raw_pred))

\* raw_pred[offset + len(next_field_name):]
after_delimiter(raw_pred, offset, next_field_name) ==
    SubSeq(raw_pred, offset + Len(next_field_name) + 1, Len(raw_pred))

\* the while loop of extract, from field idx (0-based) on; exit tells how it ended
\* ("miss": no delimiter, "last": the last field, "done": the loop condition), text is
\* the remaining text the last assignment read
RECURSIVE extract_from(_, _, _, _, _)
extract_from(ex, fs, raw_pred, idx, release) ==
    IF raw_pred = <<>> \/ idx >= Len(fs)
    THEN [example |-> ex, raw_pred |-> raw_pred, idx |-> idx, exit |-> "done", text |-> <<>>]
    ELSE IF idx < Len(fs) - 1
    THEN LET next_field_name == <<"\n">> \o fs[idx + 2].name
             offset == find(raw_pred, next_field_name)
         IN  IF offset >= 0
             THEN extract_from(
                      Put(ex, fs[idx + 1].output_variable,
                          cleanup(SubSeq(raw_pred, 1, offset), release)),
                      fs,
                      cleanup(after_delimiter(raw_pred, offset, next_field_name), release),
                      idx + 1, release)
             ELSE [example |-> on_miss(ex, fs, raw_pred, idx, release),
                   raw_pred |-> <<>>, idx |-> idx + 1, exit |-> "miss", text |-> raw_pred]
    ELSE [example |-> Put(ex, fs[idx + 1].output_variable, cleanup(raw_pred, release)),
          raw_pred |-> raw_pred, idx |-> idx, exit |-> "last", text |-> raw_pred]

\* extract(example, raw_pred): works on a copy, dsp.Example(example), and returns it
extract(ex, fs, raw_pred, release) ==
    extract_from(ex, fs, strip(raw_pred), start_index(ex, fs), release)

----------------------------------------------------------------------------
(* Specification of extract: a caller parses completions *)

MaxChunks == 3

OutputVars == <<"question", "answer", "verdict", "score", "note">>

\* templates whose third field is renamed, {check -> verdict}
ExtractTemplates ==
    {[i \in 1..n |->
        Field(FieldNames[i], <<" ">>, FieldVars[i], OutputVars[i], <<"$", "{", "x", "}">>,
              i < n)] : n \in 1..MaxFields}

\* the texts made of at most k of the chunks
RECURSIVE Concats(_, _)
Concats(chunks, k) ==
    IF k = 0 THEN {<<>>}
    ELSE LET shorter == Concats(chunks, k - 1)
         IN  shorter \cup {c \o t : c \in chunks, t \in shorter}

\* letters, dashes, line breaks, and the delimiters of the later fields
Chunks(fs) ==
    {<<"a">>, <<"-">>, <<"\n">>} \cup {<<"\n">> \o fs[i].name : i \in 2..Len(fs)}

\* "4\nQuestion: unrelated\nother"
UnrelatedCompletion ==
    <<"4", "\n">> \o Question \o <<" ", "u", "n", "r", "e", "l", "a", "t", "e", "d", "\n">>
    \o <<"o", "t", "h", "e", "r">>

AnswerText == <<"a", "n", "s", "w", "e", "r">>

\* "answer---", "answer --- ", "answer", "a- -", " a ", and the completion above
ExampleCompletions ==
    {AnswerText \o <<"-", "-", "-">>, AnswerText \o <<" ", "-", "-", "-", " ">>,
     AnswerText, <<"a", "-", " ", "-">>, <<" ", "a", " ">>, UnrelatedCompletion}

RawPreds(fs) == Concats(Chunks(fs), MaxChunks) \cup ExampleCompletions

\* the caller's value sets: any of the variables filled, or all of them present with
\* None for every one, or for every one but the first
ExtractValueSets(fs) ==
    ValueSets(InputVars(fs), {<<"a">>})
    \cup {[v \in InputVars(fs) |-> None],
          [v \in InputVars(fs) |-> IF v = fs[1].input_variable THEN <<"a">> ELSE None]}

InitExtract ==
    /\ fields \in ExtractTemplates
    /\ settings \in [release : {0, StripRelease}, query_only : {FALSE}, show_guidelines : {TRUE}]
    /\ example \in ExtractValueSets(fields)
    /\ demos = <<>>
    /\ pc = "ready"
    /\ arg = <<>>
    /\ before = example
    /\ frame = <<>>
    /\ ret = <<>>

\* extract(ex, raw_pred) called by the caller; the caller's own value set is not touched
ExtractCall(ex, raw_pred) ==
    LET e == extract(ex, fields, raw_pred, settings.release)
    IN  /\ pc' = "extract"
        /\ arg' = [raw_pred |-> raw_pred]
        /\ before' = ex
        /\ frame' = [start |-> start_index(ex, fields), idx |-> e.idx,
                     raw_pred |-> e.raw_pred, exit |-> e.exit, text |-> e.text]
        /\ ret' = e.example
        /\ UNCHANGED <<fields, settings, example, demos>>

Extract == pc = "ready" /\ \E raw_pred \in RawPreds(fields) : ExtractCall(example, raw_pred)

NextExtract == Extract

SpecExtract == InitExtract /\ [][NextExtract]_vars

\* a text trimmed and, from release 20231003 on, without its trailing dashes
Cleaned(s) ==
    IF settings.release >= 20231003
    THEN strip(rstrip(strip(s), {"-"}))
    ELSE strip(s)

\* the output variable of field i is as it was in the value set passed in
Untouched(i) ==
    LET v == fields[i].output_variable
    IN  /\ v \in DOMAIN ret <=> v \in DOMAIN before
        /\ v \in DOMAIN before => ret[v] = before[v]

LastField == fields[Len(fields)]

\* trailing occurrences of the three-character sequence "---" removed
RECURSIVE RemoveRules(_)
RemoveRules(s) ==
    IF Len(s) >= 3 /\ SubSeq(s, Len(s) - 2, Len(s)) = <<"-", "-", "-">>
    THEN RemoveRules(SubSeq(s, 1, Len(s) - 3)) ELSE s

\* trimmed, trailing "---" sequences removed, trimmed again
StripArtifact(s) == strip(RemoveRules(strip(s)))

\* extraction starts at the last field, which takes the whole completion
WholeCompletionCase ==
    /\ pc = "extract"
    /\ settings.release >= StripRelease
    /\ frame.start = Len(fields) - 1
    /\ strip(arg.raw_pred) # <<>>

\* C4 as stated: the value extract assigns is the source text trimmed, with trailing
\* "---" sequences removed, then trimmed again (nothing else is removed), and cleaning
\* it a second time changes nothing.
C4_TrailingArtifact ==
    WholeCompletionCase =>
        /\ ret[LastField.output_variable] = StripArtifact(arg.raw_pred)
        /\ StripArtifact(ret[LastField.output_variable]) = ret[LastField.output_variable]

\* C7: extract returns a value set that keeps every key passed in; when the delimiter
\* of the next field is missing at a field that is not the last, that field takes all
\* the remaining text, cleaned, and every later field's output variable is left as it
\* was in the value set passed in (absent stays absent).
C7_BoundaryMiss ==
    pc = "extract" =>
        /\ DOMAIN before \subseteq DOMAIN ret
        /\ frame.exit = "miss" =>
            /\ frame.idx < Len(fields)
            /\ ~contains(frame.text, <<"\n">> \o fields[frame.idx + 1].name)
            /\ ret[fields[frame.idx].output_variable] = Cleaned(frame.text)
            /\ \A j \in (frame.idx + 1)..Len(fields) : Untouched(j)
        /\ (/\ frame.start < Len(fields) - 1
            /\ strip(arg.raw_pred) # <<>>
            /\ ~contains(strip(arg.raw_pred), <<"\n">> \o fields[frame.start + 2].name))
           => /\ frame.exit = "miss"
              /\ frame.text = strip(arg.raw_pred)
              /\ frame.idx = frame.start + 1

\* a miss at the second of three fields, after the first delimiter was found
C7_Witness ==
    /\ pc = "extract"
    /\ Len(fields) = 3
    /\ frame.exit = "miss"
    /\ frame.start = 0
    /\ frame.idx = 2
    /\ "answer" \in DOMAIN ret
    /\ ret["answer"] # <<>>
    /\ "verdict" \notin DOMAIN ret

\* fields [Question, Answer], question filled, answer absent, the completion
\* "4\nQuestion: unrelated\nother"
UnrelatedCase ==
    /\ pc = "extract"
    /\ Len(fields) = 2
    /\ before = [question |-> <<"a">>]
    /\ arg.raw_pred = UnrelatedCompletion

\* every field up to i has its input variable present and not None
FilledUpTo(i) ==
    \A j \in 1..i : /\ fields[j].input_variable \in DOMAIN before
                    /\ before[fields[j].input_variable] # None

\* extraction never assigns a field before the first open one (clamped to the last)
NeverBeforeStart ==
    \A i \in 1..(Len(fields) - 1) : FilledUpTo(i) => Untouched(i)

\* C8 as stated: in the case above extract sets answer to "4" and assigns no other
\* field; extraction never assigns a field before the first one whose input variable is
\* absent or None (clamped to the last field).
C8_StartAtLastField ==
    /\ UnrelatedCase => ret = [question |-> <<"a">>, answer |-> <<"4">>]
    /\ pc = "extract" => NeverBeforeStart

\* C8 amended: in the case above answer takes the whole trimmed completion,
\* "4\nQuestion: unrelated\nother" (the last field has no delimiter to stop at), and no
\* other field is assigned; the general statement is unchanged.
C8_LastFieldTakesAll ==
    /\ UnrelatedCase => ret = [question |-> <<"a">>, answer |-> UnrelatedCompletion]
    /\ pc = "extract" => NeverBeforeStart

C8_Witness == UnrelatedCase /\ frame.start = 1 /\ frame.exit = "last"

----------------------------------------------------------------------------
(* Specification of the round trip: render a fully filled value set as a live
   query, join the message contents, extract from the text into an empty value set *)

RoundTripTemplates ==
    UNION {{[i \in 1..n |->
                Field(FieldNames[i], seps[i], FieldVars[i], OutputVars[i],
                      <<"$", "{", "x", "}">>, i < n)] :
            seps \in [1..n -> Separators]} : n \in 1..MaxFields}

\* non-empty texts: plain, with whitespace to collapse, ending in a dash, only a dash,
\* only blank, the name of the second field
RoundTripValues ==
    {<<"a">>, <<"a", " ", " ", "b", " ">>, <<"a", "-">>, <<"-">>, <<" ">>, Answer}

InitRoundTrip ==
    /\ fields \in RoundTripTemplates
    /\ settings \in [release : {0, StripRelease}, query_only : {FALSE}, show_guidelines : {TRUE}]
    /\ example \in [InputVars(fields) -> RoundTripValues]
    /\ demos = <<>>
    /\ pc = "ready"
    /\ arg = <<>>
    /\ before = example
    /\ frame = <<>>
    /\ ret = <<>>

Render == pc = "ready" /\ Query(FALSE)

ExtractRendered == pc = "query" /\ ExtractCall(<<>>, join(<<"\n", "\n">>, contents(ret)))

NextRoundTrip == Render \/ ExtractRendered

SpecRoundTrip == InitRoundTrip /\ [][NextRoundTrip]_vars

Recovered(i) == Cleaned(format_handler(example[fields[i].input_variable]))

\* every value has a character that is not whitespace
AllVisible == \A v \in DOMAIN example : format_handler(example[v]) # <<>>

\* no value holds the name of a field
NoNameInValues ==
    \A v \in DOMAIN example : \A i \in 1..Len(fields) : ~contains(example[v], fields[i].name)

----------------------------------------------------------------------------
(* TemplateV2.guidelines and TemplateV2.__call__ *)

False == <<"False">>

\* self.instructions
Instructions ==
    <<"A", "n", "s", "w", "e", "r", " ", "q", "u", "e", "s", "t", "i", "o", "n", "s",
      ".">>

\* "Follow the following format.\n\n"
GuidelinesHeader ==
    <<"F", "o", "l", "l", "o", "w", " ", "t", "h", "e", " ", "f", "o", "l", "l", "o",
      "w", "i", "n", "g", " ", "f", "o", "r", "m", "a", "t", ".", "\n", "\n">>

\* "OK, I'm ready."
Acknowledgment ==
    <<"O", "K", ",", " ", "I", "'", "m", " ", "r", "e", "a", "d", "y", ".">>

\* "\n\n---\n\n"
Rule == <<"\n", "\n", "-", "-", "-", "\n", "\n">>

RECURSIVE Flatten(_)
Flatten(lists) == IF lists = <<>> THEN <<>> ELSE Head(lists) \o Flatten(Tail(lists))

\* example[field.input_variable] = field.description, field by field
RECURSIVE describe(_, _)
describe(ex, fs) ==
    IF fs = <<>> THEN ex
    ELSE describe(Put(ex, Head(fs).input_variable, Head(fs).description), Tail(fs))

\* guidelines(show_guidelines); _has_augmented_guidelines has returned when it is reached
guidelines(fs, show_guidelines, st) ==
    IF ~show_guidelines \/ ~st.show_guidelines THEN <<>>
    ELSE LET ex == Put(describe(<<>>, fs), "augmented",
                       IF has_augmented_guidelines(fs).value THEN True ELSE False)
         IN  GuidelinesHeader \o join(<<"\n", "\n">>, contents(query(ex, fs, FALSE).result))

\* "\n\n---\n\n".join([p.strip() for p in parts if p])
join_parts(parts) ==
    LET kept == SelectSeq(parts, LAMBDA p : p # <<>>)
    IN  join(Rule, [i \in 1..Len(kept) |-> strip(kept[i])])

\* whether a rendered raw demo shows the name of every field the value set provides
shows_all_fields(rdemo, ex, fs) ==
    LET rdemo_content == join(<<"\n", "\n">>, contents(rdemo))
    IN  \A i \in 1..Len(fs) :
            fs[i].input_variable \in DOMAIN ex => contains(rdemo_content, fs[i].name)

\* promote that puts the promoted demos behind the marked ones
promote_behind(promoted, ademos, release) == ademos \o promoted

\* the augmented bucket after the promotion of the raw demos that show every field
promote(promoted, ademos, release) ==
    IF release >= PromoteRelease THEN promoted \o ademos ELSE ademos \o promoted

\* strip_target that keeps the target
strip_target_kept(ex, fs) == ex

\* the value set the live query is rendered from: the target field removed
strip_target(ex, fs) ==
    IF fs[Len(fs)].input_variable \in DOMAIN ex
    THEN Del(ex, fs[Len(fs)].input_variable) ELSE ex

\* the first user message
assemble(rdemos, ademos, long_query, instructions, guide) ==
    IF Len(rdemos) >= 1 /\ Len(ademos) = 0 /\ ~long_query
    THEN join_parts(<<instructions, guide>>)
    ELSE IF Len(rdemos) = 0
    THEN join_parts(<<instructions, guide>>)
    ELSE join_parts(<<instructions, join(<<"\n", "\n">>, contents(rdemos)), guide>>)

NoFrame == [example |-> <<>>, rdemos |-> <<>>, ademos |-> <<>>, long_query |-> FALSE,
            forced |-> FALSE, query |-> <<>>]

\* __call__(example, show_guidelines): the outcome and the locals it ends with
call(ex0, dms, fs, show_guidelines, st) ==
    IF st.query_only
    THEN LET q == query(ex0, fs, FALSE)
         IN  [ret |-> Returned(q.result),
              frame |-> [NoFrame EXCEPT !.example = q.example, !.query = q.result]]
    ELSE
    LET target == fs[Len(fs)].input_variable
        ex1 == strip_target(ex0, fs)
        raw == SelectSeq(dms, LAMBDA d : /\ ~Get(d, "augmented")
                                         /\ target \in DOMAIN d
                                         /\ d[target] # None)
        marked == SelectSeq(dms, LAMBDA d : Get(d, "augmented"))
        rdemos0 == [i \in 1..Len(raw) |-> query(raw[i], fs, TRUE).result]
        ademos0 == [i \in 1..Len(marked) |-> query(marked[i], fs, TRUE).result]
        new_ademos == SelectSeq(rdemos0, LAMBDA r : shows_all_fields(r, ex1, fs))
        rdemos_ == SelectSeq(rdemos0, LAMBDA r : ~shows_all_fields(r, ex1, fs))
        ademos == Flatten(promote(new_ademos, ademos0, st.release))
        rdemos == Flatten(rdemos_)
        verbose == has_augmented_guidelines(fs)
    IN  IF verbose.raised # ""
        THEN [ret |-> verbose, frame |-> [NoFrame EXCEPT !.example = ex1]]
        ELSE
        LET ex2 == IF verbose.value THEN Put(ex1, "augmented", True) ELSE ex1
            q1 == query(ex2, fs, FALSE)
            forced == Len(q1.result) > Len(fs)
            again == forced /\ ~Get(q1.example, "augmented")
            ex3 == IF again THEN Put(q1.example, "augmented", True) ELSE q1.example
            q2 == IF again THEN query(ex3, fs, FALSE) ELSE q1
            long_query == verbose.value \/ forced
            user_content ==
                assemble(rdemos, ademos, long_query, Instructions,
                         guidelines(fs, show_guidelines, st))
        IN  [ret |-> Returned(<<[role |-> "user", content |-> user_content],
                                [role |-> "assistant", content |-> Acknowledgment]>>
                              \o ademos \o q2.result),
             frame |-> [example |-> q2.example, rdemos |-> rdemos_,
                        ademos |-> promote(new_ademos, ademos0, st.release),
                        long_query |-> long_query, forced |-> forced,
                        query |-> q2.result]]

----------------------------------------------------------------------------
(* Specification of __call__: a caller assembles prompts *)

MaxDemos == 3

Described(n) == [i \in 1..n |-> <<"$", "{", "x", "}">>]
Spaced(n) == [i \in 1..n |-> <<" ">>]

\* one to four fields, all but the last of them input fields; with two fields also:
\* no input fields, no description on the last field; with two and three fields also:
\* a newline separator on the first field
CallTemplates ==
    {Template(n, n - 1, Spaced(n), Described(n)) : n \in {1, 2, 3, 4}}
    \cup {Template(1, 0, Spaced(1), <<None>>),
          Template(2, 0, Spaced(2), Described(2)),
          Template(2, 1, Spaced(2), <<<<"$", "{", "x", "}">>, None>>)}
    \cup {Template(n, n - 1, [i \in 1..n |-> IF i = 1 THEN <<"\n">> ELSE <<" ">>],
                   Described(n)) : n \in {2, 3}}

Target(fs) == fs[Len(fs)].input_variable

\* value sets: a prefix of the other fields filled, the target absent or supplied
CallValueSets(fs) ==
    {ex \in ValueSets(InputVars(fs), {<<"a">>, <<"b">>}) :
        /\ \A i \in 1..(Len(fs) - 1) :
              fs[i].input_variable \in DOMAIN ex =>
                  /\ ex[fs[i].input_variable] = <<"a">>
                  /\ \A j \in 1..i : fs[j].input_variable \in DOMAIN ex
        /\ Target(fs) \in DOMAIN ex => ex[Target(fs)] = <<"b">>}

AllFilled(fs, value, target) ==
    [v \in InputVars(fs) |-> IF v = Target(fs) THEN target ELSE value]

\* demonstrations: a complete one; one with only the target; one whose target text
\* holds the first field's name; one whose target is None; one marked augmented
Demos(fs) ==
    {AllFilled(fs, <<"a">>, <<"b">>),
     [v \in {Target(fs)} |-> <<"b">>],
     [v \in {Target(fs)} |-> fs[1].name \o <<" ", "c">>],
     AllFilled(fs, <<"a">>, None),
     Put(AllFilled(fs, <<"d">>, <<"b">>), "augmented", True)}

RECURSIVE Lists(_, _)
Lists(S, k) ==
    IF k = 0 THEN {<<>>}
    ELSE LET shorter == Lists(S, k - 1)
         IN  shorter \cup {<<x>> \o l : x \in S, l \in {m \in shorter : Len(m) = k - 1}}

\* release 20230928 with the rest as by default; an earlier release with the
\* guidelines switched off; query_only on
CallSettings ==
    {[release |-> PromoteRelease, query_only |-> FALSE, show_guidelines |-> TRUE],
     [release |-> 0, query_only |-> FALSE, show_guidelines |-> FALSE],
     [release |-> PromoteRelease, query_only |-> TRUE, show_guidelines |-> TRUE]}

InitCall ==
    /\ fields \in CallTemplates
    /\ settings \in CallSettings
    /\ example \in CallValueSets(fields)
    /\ demos \in Lists(Demos(fields), MaxDemos)
    /\ pc = "ready"
    /\ arg = <<>>
    /\ before = example
    /\ frame = <<>>
    /\ ret = <<>>

\* the caller's value set is copied on entry, dsp.Example(example), and not touched
Call(show_guidelines) ==
    LET c == call(example, demos, fields, show_guidelines, settings)
    IN  /\ pc = "ready"
        /\ pc' = "call"
        /\ arg' = [show_guidelines |-> show_guidelines]
        /\ before' = example
        /\ frame' = c.frame
        /\ ret' = c.ret
        /\ UNCHANGED <<fields, settings, example, demos>>

NextCall == \E show_guidelines \in BOOLEAN : Call(show_guidelines)

SpecCall == InitCall /\ [][NextCall]_vars

CallReturned == pc = "call" /\ ret.raised = ""

\* the last Len(frame.query) messages returned: the live query
LiveQuery == SubSeq(ret.value, Len(ret.value) - Len(frame.query) + 1, Len(ret.value))

\* what the fields before the last show, given the value set the query was rendered from
OthersShown ==
    LET shown == SelectSeq(Indices(Len(fields) - 1),
                    LAMBDA i : /\ fields[i].input_variable \in DOMAIN frame.example
                               /\ frame.example[fields[i].input_variable] # None)
    IN  [j \in 1..Len(shown) |-> Shown(frame.example, fields[shown[j]])]

\* the supplied target value is gone from the value set and from the live query, where
\* the last field is blank or missing
TargetHidden ==
    /\ \/ Target(fields) \notin DOMAIN frame.example
       \/ frame.example[Target(fields)] = <<>>
    /\ frame.query # <<>>
    /\ LiveQuery = frame.query
    /\ \/ frame.query = UserMessage(OthersShown)
       \/ frame.query = UserMessage(OthersShown \o <<Blank(LastField)>>)

\* C3 as stated: whatever value set __call__ is given, a value supplied for the last
\* field's input variable is removed before the live query is rendered; the last field
\* is rendered blank or not at all.
C3_TargetNeverLeaks == CallReturned => TargetHidden

\* C3 amended: the same, unless the query_only setting is on (then __call__ returns
\* query(example) at once, target included).
C3_TargetHiddenUnlessQueryOnly == (CallReturned /\ ~settings.query_only) => TargetHidden

\* a supplied target value, rendered as the blank last field
C3_Witness ==
    /\ CallReturned
    /\ ~settings.query_only
    /\ Len(fields) = 2
    /\ before = [question |-> <<"a">>, answer |-> <<"b">>]
    /\ frame.example["answer"] = <<>>

\* a raw demo: not marked augmented, with a non-None value for the last field
IsRaw(d) ==
    /\ ~("augmented" \in DOMAIN d /\ d["augmented"] = True)
    /\ Target(fields) \in DOMAIN d
    /\ d[Target(fields)] # None

IsMarked(d) == "augmented" \in DOMAIN d /\ d["augmented"] = True

Rendered(d) == query(d, fields, TRUE).result

\* the rendered demo holds the name of every field the live value set provides
HoldsEveryName(d) ==
    \A i \in 1..(Len(fields) - 1) :
        fields[i].input_variable \in DOMAIN before =>
            contains(join(<<"\n", "\n">>, contents(Rendered(d))), fields[i].name)

RenderedAll(chosen) == [i \in 1..Len(chosen) |-> Rendered(chosen[i])]

\* after the acknowledgment come the promoted demos in their order, then the demos
\* marked augmented, then the live query; the promoted demos are not in the raw bucket
\* the first user message is built from
PromotedFirst ==
    /\ Len(ret.value) >= 2
    /\ ret.value[1].role = "user"
    /\ ret.value[2] = [role |-> "assistant", content |-> Acknowledgment]
    /\ SubSeq(ret.value, 3, Len(ret.value)) =
           Flatten(RenderedAll(SelectSeq(demos, LAMBDA d : IsRaw(d) /\ HoldsEveryName(d))))
           \o Flatten(RenderedAll(SelectSeq(demos, IsMarked)))
           \o frame.query
    /\ frame.rdemos = RenderedAll(SelectSeq(demos, LAMBDA d : IsRaw(d) /\ ~HoldsEveryName(d)))

\* C6 as stated, for the calls that assemble a prompt (query_only off): in the
\* sequence __call__ returns, the raw demos whose rendered content holds the name of
\* every field the live value set provides come after the acknowledgment and before
\* every demo already marked augmented, in their order, and are not part of the first
\* user message.
C6_DemoPromotionOrder ==
    (/\ CallReturned
     /\ ~settings.query_only
     /\ \E i \in 1..Len(demos) : IsRaw(demos[i]) /\ HoldsEveryName(demos[i]))
        => PromotedFirst

\* C6 amended: the same, when query_only is off and dspy.settings.release is at least
\* 20230928 (before that release the promoted demos come after the marked ones).
C6_PromotionOrderFromRelease ==
    (CallReturned /\ ~settings.query_only /\ settings.release >= PromoteRelease)
        => PromotedFirst

\* a marked demo first, then a promoted raw demo, then a raw demo that is not promoted
C6_Witness ==
    /\ CallReturned
    /\ ~settings.query_only
    /\ settings.release >= PromoteRelease
    /\ Len(demos) = 3
    /\ IsMarked(demos[1])
    /\ IsRaw(demos[2]) /\ HoldsEveryName(demos[2])
    /\ IsRaw(demos[3]) /\ ~HoldsEveryName(demos[3])
    /\ ret.value[3] = Rendered(demos[2])[1]
    /\ Len(frame.rdemos) = 1

\* the lines of the message contents
Lines(msgs) ==
    LET count(s) == 1 + Cardinality({i \in 1..Len(s) : s[i] = "\n"})
        RECURSIVE sum(_)
        sum(m) == IF m = <<>> THEN 0 ELSE count(Head(m).content) + sum(Tail(m))
    IN  sum(msgs)

\* C10 as stated: when the rendered live query has more content lines than the
\* template has fields, long_query is forced to true, the value set is marked
\* augmented, and the raw demos left are part of the first user message.
C10_LongQueryForcing ==
    (CallReturned /\ ~settings.query_only /\ Lines(frame.query) > Len(fields)) =>
        /\ frame.long_query
        /\ Get(frame.example, "augmented")
        /\ frame.rdemos # <<>> =>
               contains(ret.value[1].content,
                        join(<<"\n", "\n">>, contents(Flatten(frame.rdemos))))

====
